---------------------------- MODULE Spec2Model ----------------------------
(***************************************************************************)
(* Model of streamlit_app.py (Shri Lalita Bill Generator): phone           *)
(* normalisation, aggregation of credit receipts per customer,             *)
(* reconciliation against the payment tracker, the "Save All Changes"      *)
(* bulk upsert and the JSON file that persists the tracker.                *)
(*                                                                         *)
(* Encoding of Python values:                                              *)
(*   - a string is a sequence of one-character strings, <<"9","1">>;       *)
(*   - None / NaN for a phone is the one-element sequence None;            *)
(*   - an exception escaping a function is the one-element sequence        *)
(*     ValueError;                                                         *)
(*   - money is an integer number of rupees.                               *)
(***************************************************************************)
EXTENDS Integers, Sequences, FiniteSets, TLC

VARIABLES
    df_receipts,            \* st.session_state.df_receipts, per session
    df_items,               \* st.session_state.df_items, per session
    customer_payment_data,  \* st.session_state.customer_payment_data, per session
    payment_tracker,        \* st.session_state.payment_tracker, per session
    pc,                     \* where each session's script run stands
    notice,                 \* what the current run has shown (st.success / st.error)
    tracker_file,           \* payment_tracker.json
    receipts_file,          \* saved_receipts.pkl
    items_file,             \* saved_items.pkl
    committed,              \* history: the dict of the last complete payment_tracker.json
    col_raw,    \* a CustomerNumber column as read from the sheet
    col_norm,   \* the column after .apply(normalize_phone) of the upload
    col_keys    \* the NormalizedPhone column the aggregation groups by

sessionVars == <<df_receipts, df_items, customer_payment_data, payment_tracker, pc, notice>>
sessionVarsButPc == <<df_receipts, df_items, customer_payment_data, payment_tracker, notice>>
fileVars == <<tracker_file, receipts_file, items_file, committed>>
appVars == <<sessionVars, fileVars>>
normVars == <<col_raw, col_norm, col_keys>>
vars == <<appVars, normVars>>

\* ------------------------------------------------------------------------
\* Bounds of the model
\* ------------------------------------------------------------------------

\* Number of leading digits of a 10-digit subscriber number that vary; the
\* remaining digits are taken from PadDigits.
FreeLen == 2

\* ------------------------------------------------------------------------
\* Program constants
\* ------------------------------------------------------------------------

\* len(phone_str) == 12 (country code + subscriber number)
PrefixedLen == 12
\* len(phone_str) == 10
NationalLen == 10

\* ------------------------------------------------------------------------
\* Strings
\* ------------------------------------------------------------------------
DigitChars == {"0", "1", "2", "3", "4", "5", "6", "7", "8", "9"}

None == <<"None">>
ValueError == <<"ValueError">>

\* str.startswith
StartsWith(s, p) == Len(s) >= Len(p) /\ SubSeq(s, 1, Len(p)) = p

\* s[n:]
DropFirst(s, n) == SubSeq(s, n + 1, Len(s))

\* position of the first "." of s, or Len(s) + 1
RECURSIVE DotAt(_, _)
DotAt(s, i) ==
    IF i > Len(s) THEN Len(s) + 1
    ELSE IF s[i] = "." THEN i
    ELSE DotAt(s, i + 1)

AllDigits(s) == \A i \in 1..Len(s) : s[i] \in DigitChars

\* float(phone) accepts the text: digits with at most one decimal point and
\* at least one digit (the other forms float() accepts, signs, exponents,
\* "inf", "nan", are not among the inputs drawn here).
FloatParses(s) ==
    LET d == DotAt(s, 1)
        ip == SubSeq(s, 1, d - 1)
        fp == SubSeq(s, d + 1, Len(s))
    IN /\ AllDigits(ip)
       /\ AllDigits(fp)
       /\ Len(ip) + Len(fp) > 0

RECURSIVE StripLeadingZeros(_)
StripLeadingZeros(s) ==
    IF Len(s) > 1 /\ s[1] = "0" THEN StripLeadingZeros(Tail(s)) ELSE s

\* str(int(float(phone))) of a text float() accepts: the fraction is
\* truncated and the integer is printed without leading zeros.  Exact for
\* integer parts of at most 15 digits (a double holds them exactly).
StrIntFloat(s) ==
    LET ip == SubSeq(s, 1, DotAt(s, 1) - 1)
    IN IF ip = <<>> THEN <<"0">> ELSE StripLeadingZeros(ip)

\* A variant that never removes the country code.
NormalizePhoneKeepPrefix(phone) ==
    IF phone = None THEN None
    ELSE IF ~FloatParses(phone) THEN ValueError
    ELSE StrIntFloat(phone)

\* normalize_phone(phone)
NormalizePhone(phone) ==
    IF phone = None THEN None
    ELSE IF ~FloatParses(phone) THEN ValueError
    ELSE LET phone_str == StrIntFloat(phone)
         IN IF StartsWith(phone_str, <<"9", "1">>) /\ Len(phone_str) = PrefixedLen
            THEN DropFirst(phone_str, 2)
            ELSE IF Len(phone_str) = NationalLen THEN phone_str
            ELSE phone_str

\* ------------------------------------------------------------------------
\* The CustomerNumber column through both normalisations
\* ------------------------------------------------------------------------
LeadDigits == {"0", "1", "7", "9"}
PadDigits == <<"3", "4", "0", "0", "2", "0", "2", "2", "5", "6">>

\* 10-digit subscriber numbers: FreeLen free leading digits, then padding.
SubscriberNumbers ==
    { f \o SubSeq(PadDigits, 1, NationalLen - FreeLen) : f \in [1..FreeLen -> LeadDigits] }

CountryCode == <<"9", "1">>
FloatSuffix == <<".", "0">>

\* The representations of one subscriber: plain, with country code, and
\* both as printed floats.
FormsOf(d) ==
    << d, CountryCode \o d, d \o FloatSuffix, CountryCode \o d \o FloatSuffix >>

\* Other cells a sheet can hold: missing, too short, too long, another
\* country code, not numeric.
OtherCells ==
    {None, <<"N", "A">>}
    \cup { SubSeq(d, 1, NationalLen - 1) : d \in SubscriberNumbers }
    \cup { d \o <<"5">> : d \in SubscriberNumbers }
    \cup { <<"9", "2">> \o d : d \in SubscriberNumbers }
    \cup { d \o <<"x">> : d \in SubscriberNumbers }

Columns == { FormsOf(d) : d \in SubscriberNumbers } \cup { <<c>> : c \in OtherCells }

ColPending == [state |-> "pending", values |-> <<>>]
ColRaised == [state |-> "raised", values |-> <<>>]
ColDone(v) == [state |-> "done", values |-> v]

\* Series.apply(normalize_phone): an exception of any cell escapes.
ApplyNormalize(col) ==
    LET out == [i \in 1..Len(col) |-> NormalizePhone(col[i])]
    IN IF \E i \in 1..Len(col) : out[i] = ValueError
       THEN ColRaised
       ELSE ColDone(out)

\* The column variables at rest, for the specifications of the application.
NormIdle ==
    /\ col_raw = <<>>
    /\ col_norm = ColPending
    /\ col_keys = ColPending

\* ------------------------------------------------------------------------
\* Data of the application
\* ------------------------------------------------------------------------
Sessions == {1, 2}

\* Rows of the sheet 'receipts' an upload may hold.
MaxRows == 2

SubA == <<"7", "2", "3", "4", "0", "0", "2", "0", "2", "2">>
SubB == <<"9", "8", "7", "6", "5", "4", "3", "2", "1", "0">>

\* The rows a sheet is made of: one customer under both forms of the phone
\* and two spellings of the name, a second customer, a credit sale without
\* a phone, a cash sale.
RawRows ==
    { [CustomerName |-> "Asha", CustomerNumber |-> SubA,
       Total |-> 100, PaymentMode |-> "Credit"],
      [CustomerName |-> "Asha Devi", CustomerNumber |-> CountryCode \o SubA,
       Total |-> 50, PaymentMode |-> "Credit"],
      [CustomerName |-> "Ravi", CustomerNumber |-> SubB,
       Total |-> 100, PaymentMode |-> "Credit"],
      [CustomerName |-> "Walk-in", CustomerNumber |-> None,
       Total |-> 50, PaymentMode |-> "Credit"],
      [CustomerName |-> "Ravi", CustomerNumber |-> SubB,
       Total |-> 50, PaymentMode |-> "Cash"] }

Sheets == UNION { [1..n -> RawRows] : n \in 1..MaxRows }

\* A DataFrame held in session state, or None.
NoneDF == [none |-> TRUE, rows |-> <<>>]
DF(rows) == [none |-> FALSE, rows |-> rows]

\* A file that does not exist; a file holding a complete pickle / JSON text;
\* a file opened for writing (truncated) whose text is not yet complete.
NoFile == [exists |-> FALSE, complete |-> FALSE, data |-> <<>>]
FileOf(d) == [exists |-> TRUE, complete |-> TRUE, data |-> d]
TruncatedFile == [exists |-> TRUE, complete |-> FALSE, data |-> <<>>]

EmptyDict == <<>>

\* dict.get(key, default)
DictGet(d, key, default) == IF key \in DOMAIN d THEN d[key] ELSE default

\* d[key] = value
DictSet(d, key, value) ==
    [k \in DOMAIN d \cup {key} |-> IF k = key THEN value ELSE d[k]]

\* ------------------------------------------------------------------------
\* Aggregation and reconciliation: initialize_customer_payment_data
\* ------------------------------------------------------------------------
CharRank(c) ==
    CASE c = "0" -> 0 [] c = "1" -> 1 [] c = "2" -> 2 [] c = "3" -> 3
      [] c = "4" -> 4 [] c = "5" -> 5 [] c = "6" -> 6 [] c = "7" -> 7
      [] c = "8" -> 8 [] c = "9" -> 9 [] OTHER -> 10

\* a < b for Python strings
RECURSIVE StrLess(_, _)
StrLess(a, b) ==
    IF b = <<>> THEN FALSE
    ELSE IF a = <<>> THEN TRUE
    ELSE IF CharRank(a[1]) # CharRank(b[1]) THEN CharRank(a[1]) < CharRank(b[1])
    ELSE StrLess(Tail(a), Tail(b))

\* the keys of a groupby, in its sorted order
RECURSIVE SortedKeys(_)
SortedKeys(S) ==
    IF S = {} THEN <<>>
    ELSE LET m == CHOOSE x \in S : \A y \in S \ {x} : StrLess(x, y)
         IN <<m>> \o SortedKeys(S \ {m})

\* A missing CustomerName cell (NaN).
NoName == "nan"

\* A variant that takes the name of the first row, missing or not.
FirstNameOfGroup(names) ==
    IF names = <<>> THEN NoName ELSE Head(names)

\* GroupBy 'first': the first value of the column that is not null, NaN
\* when every value is null.
RECURSIVE FirstValidName(_)
FirstValidName(names) ==
    IF names = <<>> THEN NoName
    ELSE IF Head(names) # NoName THEN Head(names)
    ELSE FirstValidName(Tail(names))

RECURSIVE SumTotal(_)
SumTotal(rows) ==
    IF rows = <<>> THEN 0 ELSE Head(rows).Total + SumTotal(Tail(rows))

\* A variant that counts only the first receipt of a customer.
AggregateFirstOnly(receipts) ==
    LET df == [i \in 1..Len(receipts) |->
                  [row |-> receipts[i],
                   NormalizedPhone |-> NormalizePhone(receipts[i].CustomerNumber)]]
        keys == { df[i].NormalizedPhone : i \in 1..Len(df) } \ {None}
        group(k) == SelectSeq(df, LAMBDA r : r.NormalizedPhone = k)
        order == SortedKeys(keys)
    IN [j \in 1..Len(order) |->
           [NormalizedPhone |-> order[j],
            CustomerName |-> group(order[j])[1].row.CustomerName,
            CustomerNumber |-> group(order[j])[1].row.CustomerNumber,
            Total |-> group(order[j])[1].row.Total]]

\* customer_summary: df.groupby('NormalizedPhone', dropna=True).agg(first,
\* first, sum).reset_index(); one row per phone, in the sorted order of the
\* phones; the receipts whose NormalizedPhone is None are in no group.
Aggregate(receipts) ==
    LET df == [i \in 1..Len(receipts) |->
                  [row |-> receipts[i],
                   NormalizedPhone |-> NormalizePhone(receipts[i].CustomerNumber)]]
        keys == { df[i].NormalizedPhone : i \in 1..Len(df) } \ {None}
        group(k) == SelectSeq(df, LAMBDA r : r.NormalizedPhone = k)
        order == SortedKeys(keys)
    IN [j \in 1..Len(order) |->
           [NormalizedPhone |-> order[j],
            CustomerName |-> FirstValidName([i \in 1..Len(group(order[j])) |->
                                               group(order[j])[i].row.CustomerName]),
            CustomerNumber |-> group(order[j])[1].row.CustomerNumber,
            Total |-> SumTotal([i \in 1..Len(group(order[j])) |-> group(order[j])[i].row])]]

\* remaining = amount_due + previous_balance - advance_amount - amount_paid
Remaining(amount_due, previous_balance, advance_amount, amount_paid) ==
    amount_due + previous_balance - advance_amount - amount_paid

\* One row of payment_data, from a row of customer_summary and the
\* tracker's dict of the phone ({} when it has none).
ViewRowFrom(row, tracker_info) ==
    LET previous_balance == DictGet(tracker_info, "previous_balance", 0)
        advance_amount == DictGet(tracker_info, "advance_amount", 0)
        amount_paid == DictGet(tracker_info, "amount_paid", 0)
    IN [Name |-> row.CustomerName,
        Phone |-> row.NormalizedPhone,
        Address |-> DictGet(tracker_info, "address", ""),
        AmountDue |-> row.Total,
        PreviousBalance |-> previous_balance,
        AdvanceGiven |-> IF advance_amount > 0 THEN "Yes" ELSE "No",
        AdvanceAmount |-> advance_amount,
        PaymentStatus |-> DictGet(tracker_info, "payment_status", "Due"),
        AmountPaid |-> amount_paid,
        RemainingAmount |-> Remaining(row.Total, previous_balance, advance_amount, amount_paid),
        PaymentMode |-> DictGet(tracker_info, "payment_mode", ""),
        ReceivedOn |-> DictGet(tracker_info, "received_on", ""),
        CashCollected |-> DictGet(tracker_info, "cash_collected", FALSE),
        CashDeposited |-> DictGet(tracker_info, "cash_deposited", FALSE),
        Remarks |-> DictGet(tracker_info, "remarks", ""),
        AdvanceCF |-> DictGet(tracker_info, "advance_cf", 0)]

\* A variant that never looks the phone up in the tracker.
ViewRowNoLookup(row, tracker) == ViewRowFrom(row, EmptyDict)

\* tracker_info = st.session_state.payment_tracker.get(phone, {})
ViewRow(row, tracker) ==
    ViewRowFrom(row, DictGet(tracker, row.NormalizedPhone, EmptyDict))

\* initialize_customer_payment_data(): None without receipts, else the frame
\* of the view rows.  It reads the tracker and assigns nothing.
InitializeCustomerPaymentData(receipts, tracker) ==
    IF receipts.none THEN NoneDF
    ELSE LET customer_summary == Aggregate(receipts.rows)
         IN DF([j \in 1..Len(customer_summary) |-> ViewRow(customer_summary[j], tracker)])

\* ------------------------------------------------------------------------
\* The payment tracking tab: filters, editor, Save All Changes
\* ------------------------------------------------------------------------
Statuses == {"Due", "Partial", "Settled", "Advance"}

\* str.contains(q) for a plain text q
Contains(str, q) ==
    \E i \in 0..(Len(str) - Len(q)) : SubSeq(str, i + 1, i + Len(q)) = q

\* The filters of the tab: filter_status (one status or 'All') and
\* search_phone ('' or a text).
PhoneSearches == {SubA, SubB}
FilterChoices ==
    { [status |-> st, phone |-> <<>>] : st \in {"All", "Due", "Partial"} }
    \cup { [status |-> "All", phone |-> q] : q \in PhoneSearches }

\* filtered_df
FilteredRows(rows, f) ==
    LET by_status == IF f.status = "All" THEN rows
                     ELSE SelectSeq(rows, LAMBDA r : r.PaymentStatus = f.status)
    IN IF f.phone = <<>> THEN by_status
       ELSE SelectSeq(by_status, LAMBDA r : Contains(r.Phone, f.phone))

\* What the operator types into one row of the editor before saving.
EditChoices == {"none", "payment", "adjust"}

\* What the operator types when a payment comes in and only the Amount Paid
\* cell is touched: the full amount received, or a negative amount (the
\* NumberColumn has no min_value).
PayEdits == {"none", "payment", "receive", "reverse"}

\* st.data_editor: the row with the edited cells replaced; no cell is
\* recomputed from another.
EditedRow(row, e) ==
    CASE e = "receive" -> [row EXCEPT !.AmountPaid = 100]
      [] e = "reverse" -> [row EXCEPT !.AmountPaid = -10]
      [] e = "payment" ->
           [row EXCEPT !.AmountPaid = 60, !.PaymentStatus = "Partial",
                       !.PaymentMode = "UPI", !.ReceivedOn = "2025-01-05"]
      [] e = "adjust" ->
           [row EXCEPT !.PreviousBalance = 20, !.AdvanceAmount = 10,
                       !.Remarks = "carried over", !.CashCollected = TRUE]
      [] OTHER -> row

\* datetime.now().strftime(...): the time of the save is not modelled.
Now == "now"

\* The dict stored under st.session_state.payment_tracker[phone].
TrackerRow(row) ==
    [customer_name |-> row.Name,
     address |-> row.Address,
     previous_balance |-> row.PreviousBalance,
     advance_amount |-> row.AdvanceAmount,
     payment_status |-> row.PaymentStatus,
     amount_paid |-> row.AmountPaid,
     payment_mode |-> row.PaymentMode,
     received_on |-> row.ReceivedOn,
     cash_collected |-> row.CashCollected,
     cash_deposited |-> row.CashDeposited,
     remarks |-> row.Remarks,
     advance_cf |-> row.AdvanceCF,
     last_updated |-> Now]

\* A variant that keeps only the rows of the edited frame.
RECURSIVE UpsertRowsReplaceAll(_, _)
UpsertRowsReplaceAll(tracker, edited) ==
    IF edited = <<>> THEN EmptyDict
    ELSE DictSet(UpsertRowsReplaceAll(tracker, Tail(edited)),
                 Head(edited).Phone, TrackerRow(Head(edited)))

\* for idx, row in edited_df.iterrows(): payment_tracker[phone] = {...}
RECURSIVE UpsertRows(_, _)
UpsertRows(tracker, edited) ==
    IF edited = <<>> THEN tracker
    ELSE UpsertRows(DictSet(tracker, Head(edited).Phone, TrackerRow(Head(edited))),
                    Tail(edited))

\* edited_df of a run: the filtered view with the operator's edits.
EditedFrame(view, f, e) ==
    LET filtered == FilteredRows(view.rows, f)
    IN [i \in 1..Len(filtered) |-> EditedRow(filtered[i], e[i])]

\* ------------------------------------------------------------------------
\* Script runs.  Every interaction reruns main(): the prologue loads the
\* saved files into the session (RunStart), then the code of the widget
\* that fired runs (one of the other actions) and the run ends.
\* ------------------------------------------------------------------------

\* A session before its first run: init_session_state's defaults.
AppInit ==
    /\ df_receipts = [s \in Sessions |-> NoneDF]
    /\ df_items = [s \in Sessions |-> NoneDF]
    /\ customer_payment_data = [s \in Sessions |-> NoneDF]
    /\ payment_tracker = [s \in Sessions |-> EmptyDict]
    /\ pc = [s \in Sessions |-> "idle"]
    /\ notice = [s \in Sessions |-> {}]
    /\ tracker_file = NoFile
    /\ receipts_file = NoFile
    /\ items_file = NoFile
    /\ committed = EmptyDict

\* load_saved_data(): the receipts of the pickle when it exists; a pickle
\* that cannot be read leaves the session as it is.
LoadSavedData(session_receipts, file) ==
    IF file.exists /\ file.complete THEN DF(file.data) ELSE session_receipts

\* The items of load_saved_data(): read after the receipts inside the same
\* try, so a receipts pickle that cannot be read leaves the items as they are.
LoadSavedItems(session_items, rfile, ifile) ==
    IF rfile.exists /\ ~rfile.complete THEN session_items
    ELSE LoadSavedData(session_items, ifile)

\* load_payment_tracker(): the dict of the JSON file when it exists, {} when
\* reading it raises, the session's own dict when there is no file.
LoadPaymentTracker(session_tracker, file) ==
    IF ~file.exists THEN session_tracker
    ELSE IF file.complete THEN file.data
    ELSE EmptyDict

\* main(): init_session_state(); load_payment_tracker()
RunStart(s) ==
    /\ pc[s] = "idle"
    /\ pc' = [pc EXCEPT ![s] = "run"]
    /\ notice' = [notice EXCEPT ![s] = {}]
    /\ df_receipts' = [df_receipts EXCEPT ![s] = LoadSavedData(@, receipts_file)]
    /\ df_items' = [df_items EXCEPT ![s] = LoadSavedItems(@, receipts_file, items_file)]
    /\ payment_tracker' = [payment_tracker EXCEPT ![s] = LoadPaymentTracker(@, tracker_file)]
    /\ UNCHANGED <<customer_payment_data, fileVars, normVars>>

\* The sidebar's len(st.session_state.customer_payment_data) with receipts
\* loaded and no view raises TypeError.
SidebarRaises(s) == ~df_receipts[s].none /\ customer_payment_data[s].none

\* The tabs render only a view that has rows: create_dashboard divides by
\* len(df).
TabsRender(s) ==
    /\ ~df_receipts[s].none
    /\ ~customer_payment_data[s].none
    /\ Len(customer_payment_data[s].rows) > 0

\* A run that ends in an uncaught exception.
RunRaises(s) ==
    /\ pc[s] = "run"
    /\ ~df_receipts[s].none
    /\ ~TabsRender(s) \/ df_items[s].none
    /\ pc' = [pc EXCEPT ![s] = "idle"]
    /\ notice' = [notice EXCEPT ![s] = {"exception"}]
    /\ UNCHANGED <<df_receipts, df_items, customer_payment_data, payment_tracker,
                   fileVars, normVars>>

\* The receipts an upload keeps: Credit rows, CustomerNumber replaced by the
\* normalised phone, ReceiptId the row of the sheet.
CreditReceipts(sheet) ==
    LET raw == [i \in 1..Len(sheet) |->
                   [ReceiptId |-> i,
                    CustomerName |-> sheet[i].CustomerName,
                    CustomerNumber |-> NormalizePhone(sheet[i].CustomerNumber),
                    Total |-> sheet[i].Total,
                    PaymentMode |-> sheet[i].PaymentMode]]
    IN SelectSeq(raw, LAMBDA r : r.PaymentMode = "Credit")

\* The sheet 'receiptsWithItems' of the workbook: per receipt one line of
\* goods carrying the receipt's amount and one line of tax.
ItemsSheet(sheet) ==
    [k \in 1..(2 * Len(sheet)) |->
        [ReceiptId |-> (k + 1) \div 2,
         EntryType |-> IF k % 2 = 1 THEN "Item" ELSE "Tax",
         Amount |-> IF k % 2 = 1 THEN sheet[(k + 1) \div 2].Total ELSE 0]]

\* The items an upload keeps: the lines of the kept receipts whose
\* EntryType is 'Item'.
CreditItems(sheet) ==
    LET receipt_ids == { CreditReceipts(sheet)[i].ReceiptId :
                            i \in 1..Len(CreditReceipts(sheet)) }
        of_receipts == SelectSeq(ItemsSheet(sheet), LAMBDA r : r.ReceiptId \in receipt_ids)
    IN SelectSeq(of_receipts, LAMBDA r : r.EntryType = "Item")

\* if excel_file: ... (Excel upload)
UploadSheet(s, sheet) ==
    /\ pc[s] = "run"
    /\ ~SidebarRaises(s)
    /\ pc' = [pc EXCEPT ![s] = "idle"]
    /\ IF ApplyNormalize([i \in 1..Len(sheet) |-> sheet[i].CustomerNumber]).state = "raised"
       THEN /\ notice' = [notice EXCEPT ![s] = {"Error loading file"}]
            /\ UNCHANGED <<df_receipts, df_items, customer_payment_data,
                           receipts_file, items_file>>
       ELSE /\ df_receipts' = [df_receipts EXCEPT ![s] = DF(CreditReceipts(sheet))]
            /\ df_items' = [df_items EXCEPT ![s] = DF(CreditItems(sheet))]
            /\ customer_payment_data' =
                   [customer_payment_data EXCEPT
                       ![s] = InitializeCustomerPaymentData(DF(CreditReceipts(sheet)),
                                                            payment_tracker[s])]
            /\ receipts_file' = FileOf(CreditReceipts(sheet))
            /\ items_file' = FileOf(CreditItems(sheet))
            /\ notice' = [notice EXCEPT ![s] = {"Loaded"}]
    /\ UNCHANGED <<payment_tracker, tracker_file, committed, normVars>>

\* if st.button("Clear Saved Data")
ClearSavedData(s) ==
    /\ pc[s] = "run"
    /\ ~df_receipts[s].none
    /\ ~SidebarRaises(s)
    /\ pc' = [pc EXCEPT ![s] = "idle"]
    /\ df_receipts' = [df_receipts EXCEPT ![s] = NoneDF]
    /\ df_items' = [df_items EXCEPT ![s] = NoneDF]
    /\ customer_payment_data' = [customer_payment_data EXCEPT ![s] = NoneDF]
    /\ receipts_file' = NoFile
    /\ items_file' = NoFile
    /\ notice' = [notice EXCEPT ![s] = {"Data cleared"}]
    /\ UNCHANGED <<payment_tracker, tracker_file, committed, normVars>>

\* if st.session_state.df_receipts is None: ... return
NoData(s) ==
    /\ pc[s] = "run"
    /\ df_receipts[s].none
    /\ pc' = [pc EXCEPT ![s] = "idle"]
    /\ UNCHANGED <<df_receipts, df_items, customer_payment_data, payment_tracker,
                   notice, fileVars, normVars>>

\* if st.button("Save All Changes"), the write succeeding
SaveAllChanges(s, f, e) ==
    /\ pc[s] = "run"
    /\ TabsRender(s)
    /\ pc' = [pc EXCEPT ![s] = "idle"]
    /\ payment_tracker' =
           [payment_tracker EXCEPT
               ![s] = UpsertRows(@, EditedFrame(customer_payment_data[s], f, e))]
    /\ customer_payment_data' =
           [customer_payment_data EXCEPT
               ![s] = DF(EditedFrame(customer_payment_data[s], f, e))]
    /\ tracker_file' = FileOf(payment_tracker'[s])
    /\ committed' = payment_tracker'[s]
    /\ notice' = [notice EXCEPT ![s] = {"All changes saved"}]
    /\ UNCHANGED <<df_receipts, df_items, receipts_file, items_file, normVars>>

\* Where save_payment_tracker() can fail: open() raises and the file is as
\* it was, or json.dump raises after open() has truncated the file.
WriteFailures == {"open", "dump"}

\* if st.button("Save All Changes"), save_payment_tracker() catching an
\* exception: st.error, and the handler goes on to st.success.
SaveAllChangesWriteFails(s, f, e, failure) ==
    /\ pc[s] = "run"
    /\ TabsRender(s)
    /\ pc' = [pc EXCEPT ![s] = "idle"]
    /\ payment_tracker' =
           [payment_tracker EXCEPT
               ![s] = UpsertRows(@, EditedFrame(customer_payment_data[s], f, e))]
    /\ customer_payment_data' =
           [customer_payment_data EXCEPT
               ![s] = DF(EditedFrame(customer_payment_data[s], f, e))]
    /\ tracker_file' = IF failure = "open" THEN tracker_file ELSE TruncatedFile
    /\ notice' = [notice EXCEPT
                     ![s] = {"Failed to save payment tracker", "All changes saved"}]
    /\ UNCHANGED <<df_receipts, df_items, receipts_file, items_file, committed, normVars>>

\* Save All Changes in the steps other sessions can interleave with: the
\* loop over edited_df and the assignment of the view ...
SaveUpdate(s, f, e) ==
    /\ pc[s] = "run"
    /\ TabsRender(s)
    /\ pc' = [pc EXCEPT ![s] = "save"]
    /\ payment_tracker' =
           [payment_tracker EXCEPT
               ![s] = UpsertRows(@, EditedFrame(customer_payment_data[s], f, e))]
    /\ customer_payment_data' =
           [customer_payment_data EXCEPT
               ![s] = DF(EditedFrame(customer_payment_data[s], f, e))]
    /\ UNCHANGED <<df_receipts, df_items, notice, fileVars, normVars>>

\* ... open('payment_tracker.json', 'w'), which truncates the file ...
SaveOpen(s) ==
    /\ pc[s] = "save"
    /\ pc' = [pc EXCEPT ![s] = "dump"]
    /\ tracker_file' = TruncatedFile
    /\ UNCHANGED <<sessionVarsButPc, receipts_file, items_file, committed, normVars>>

\* ... json.dump and the close of the file, then st.success.
SaveDump(s) ==
    /\ pc[s] = "dump"
    /\ pc' = [pc EXCEPT ![s] = "idle"]
    /\ tracker_file' = FileOf(payment_tracker[s])
    /\ committed' = payment_tracker[s]
    /\ notice' = [notice EXCEPT ![s] = {"All changes saved"}]
    /\ UNCHANGED <<df_receipts, df_items, customer_payment_data, payment_tracker,
                   receipts_file, items_file, normVars>>

\* A variant of Refresh Data that stores the rows it reconciled in the
\* tracker.
RefreshDataStoring(s) ==
    /\ pc[s] = "run"
    /\ TabsRender(s)
    /\ pc' = [pc EXCEPT ![s] = "idle"]
    /\ customer_payment_data' =
           [customer_payment_data EXCEPT
               ![s] = InitializeCustomerPaymentData(df_receipts[s], payment_tracker[s])]
    /\ payment_tracker' =
           [payment_tracker EXCEPT ![s] = UpsertRows(@, customer_payment_data'[s].rows)]
    /\ UNCHANGED <<df_receipts, df_items, notice, fileVars, normVars>>

\* if st.button("Refresh Data")
RefreshData(s) ==
    /\ pc[s] = "run"
    /\ TabsRender(s)
    /\ pc' = [pc EXCEPT ![s] = "idle"]
    /\ customer_payment_data' =
           [customer_payment_data EXCEPT
               ![s] = InitializeCustomerPaymentData(df_receipts[s], payment_tracker[s])]
    /\ UNCHANGED <<df_receipts, df_items, payment_tracker, notice, fileVars, normVars>>

\* payment_info = payment_tracker.get(selected_phone, {}); payment_info.update({...}):
\* the dict of the tracker itself is updated when the phone has one.
BillPaymentInfo(tracker, customer_row) ==
    IF customer_row.Phone \in DOMAIN tracker
    THEN [tracker EXCEPT ![customer_row.Phone] =
             [@ EXCEPT !.previous_balance = customer_row.PreviousBalance,
                       !.advance_amount = customer_row.AdvanceAmount,
                       !.amount_paid = customer_row.AmountPaid]]
    ELSE tracker

\* A run in which no button fired: the tabs render, the bill tab for the
\* selected customer (row i of the view).
Render(s, i) ==
    /\ pc[s] = "run"
    /\ TabsRender(s)
    /\ i \in 1..Len(customer_payment_data[s].rows)
    /\ ~df_items[s].none
    /\ pc' = [pc EXCEPT ![s] = "idle"]
    /\ payment_tracker' =
           [payment_tracker EXCEPT
               ![s] = BillPaymentInfo(@, customer_payment_data[s].rows[i])]
    /\ UNCHANGED <<df_receipts, df_items, customer_payment_data, notice, fileVars, normVars>>

\* The server restarts or the browser opens a new session: session state
\* is lost, the files stay.
NewSession(s) ==
    /\ pc[s] = "idle"
    /\ ~(df_receipts[s].none /\ payment_tracker[s] = EmptyDict)
    /\ df_receipts' = [df_receipts EXCEPT ![s] = NoneDF]
    /\ df_items' = [df_items EXCEPT ![s] = NoneDF]
    /\ customer_payment_data' = [customer_payment_data EXCEPT ![s] = NoneDF]
    /\ payment_tracker' = [payment_tracker EXCEPT ![s] = EmptyDict]
    /\ notice' = [notice EXCEPT ![s] = {}]
    /\ UNCHANGED <<pc, fileVars, normVars>>

\* The edits of a save: one choice per row of the filtered view.
EditsFor(s, f) ==
    [1..Len(FilteredRows(customer_payment_data[s].rows, f)) -> EditChoices]

\* One operator, one session.
Operator == {1}

Init == AppInit /\ NormIdle

Next ==
    \E s \in Operator :
        \/ RunStart(s)
        \/ RunRaises(s)
        \/ \E sheet \in Sheets : UploadSheet(s, sheet)
        \/ ClearSavedData(s)
        \/ NoData(s)
        \/ \E f \in FilterChoices : \E e \in EditsFor(s, f) : SaveAllChanges(s, f, e)
        \/ RefreshData(s)
        \/ \E i \in 1..MaxRows : Render(s, i)
        \/ NewSession(s)

Spec == Init /\ [][Next]_vars

\* The month's sheet: two customers with one credit receipt each.
MonthSheet ==
    << [CustomerName |-> "Asha", CustomerNumber |-> SubA,
        Total |-> 100, PaymentMode |-> "Credit"],
       [CustomerName |-> "Ravi", CustomerNumber |-> SubB,
        Total |-> 100, PaymentMode |-> "Credit"] >>

\* The operator's session, uploading the month's sheet, with writes of
\* payment_tracker.json that can fail.
NextFault ==
    \E s \in Operator :
        \/ RunStart(s)
        \/ RunRaises(s)
        \/ UploadSheet(s, MonthSheet)
        \/ ClearSavedData(s)
        \/ NoData(s)
        \/ \E f \in FilterChoices : \E e \in EditsFor(s, f) : SaveAllChanges(s, f, e)
        \/ \E f \in FilterChoices : \E e \in EditsFor(s, f) :
              \E failure \in WriteFailures : SaveAllChangesWriteFails(s, f, e, failure)
        \/ RefreshData(s)
        \/ \E i \in 1..MaxRows : Render(s, i)
        \/ NewSession(s)

SpecFault == Init /\ [][NextFault]_vars

\* Two sessions on the same files, each uploading the month's sheet once and
\* recording payments of the customer it searched for; the steps of a save
\* interleave with the other session's.
ConcFilters == { [status |-> "All", phone |-> q] : q \in PhoneSearches }
ConcEdits(s, f) ==
    [1..Len(FilteredRows(customer_payment_data[s].rows, f)) -> {"payment"}]

NextConc ==
    \E s \in Sessions :
        \/ RunStart(s)
        \/ RunRaises(s)
        \/ (customer_payment_data[s].none /\ UploadSheet(s, MonthSheet))
        \/ NoData(s)
        \/ \E f \in ConcFilters : \E e \in ConcEdits(s, f) : SaveUpdate(s, f, e)
        \/ SaveOpen(s)
        \/ SaveDump(s)
        \/ \E i \in 1..MaxRows : Render(s, i)

SpecConc == Init /\ [][NextConc]_vars

\* Sheets whose rows differ in the spelling of the name, a missing name
\* included, and in the form of the phone.
NameRows ==
    { [CustomerName |-> n, CustomerNumber |-> p, Total |-> 100, PaymentMode |-> "Credit"] :
        n \in {"Asha", "Asha Devi", NoName}, p \in {SubA, CountryCode \o SubA, SubB} }

NameSheets == UNION { [1..n -> NameRows] : n \in 1..MaxRows }

\* The operator's session uploading such sheets.
NextNames ==
    \E s \in Operator :
        \/ RunStart(s)
        \/ RunRaises(s)
        \/ \E sheet \in NameSheets : UploadSheet(s, sheet)
        \/ ClearSavedData(s)
        \/ NoData(s)
        \/ RefreshData(s)
        \/ \E i \in 1..MaxRows : Render(s, i)
        \/ NewSession(s)

SpecNames == Init /\ [][NextNames]_vars

\* The operator's session through a month: the sheet is uploaded and
\* payments are typed into Amount Paid as they come in.
PayEditsFor(s, f) ==
    [1..Len(FilteredRows(customer_payment_data[s].rows, f)) -> PayEdits]

NextPay ==
    \E s \in Operator :
        \/ RunStart(s)
        \/ RunRaises(s)
        \/ UploadSheet(s, MonthSheet)
        \/ NoData(s)
        \/ \E f \in FilterChoices : \E e \in PayEditsFor(s, f) : SaveAllChanges(s, f, e)
        \/ RefreshData(s)
        \/ \E i \in 1..MaxRows : Render(s, i)
        \/ NewSession(s)

SpecPay == Init /\ [][NextPay]_vars

\* The sheet of the month after: the same customers, other amounts.
NextMonthSheet ==
    << [CustomerName |-> "Asha", CustomerNumber |-> SubA,
        Total |-> 70, PaymentMode |-> "Credit"],
       [CustomerName |-> "Ravi", CustomerNumber |-> SubB,
        Total |-> 30, PaymentMode |-> "Credit"] >>

ImportSheets == {MonthSheet, NextMonthSheet}

\* The upload in the steps other sessions can interleave with: the
\* assignments of the session state (df_receipts, df_items, the view) ...
ImportAssign(s, sheet) ==
    /\ pc[s] = "run"
    /\ ~SidebarRaises(s)
    /\ ApplyNormalize([i \in 1..Len(sheet) |-> sheet[i].CustomerNumber]).state = "done"
    /\ pc' = [pc EXCEPT ![s] = "save_receipts"]
    /\ df_receipts' = [df_receipts EXCEPT ![s] = DF(CreditReceipts(sheet))]
    /\ df_items' = [df_items EXCEPT ![s] = DF(CreditItems(sheet))]
    /\ customer_payment_data' =
           [customer_payment_data EXCEPT
               ![s] = InitializeCustomerPaymentData(DF(CreditReceipts(sheet)),
                                                    payment_tracker[s])]
    /\ UNCHANGED <<payment_tracker, notice, fileVars, normVars>>

\* ... save_data(): df_receipts.to_pickle('saved_receipts.pkl') ...
ImportSaveReceipts(s) ==
    /\ pc[s] = "save_receipts"
    /\ pc' = [pc EXCEPT ![s] = "save_items"]
    /\ receipts_file' = FileOf(df_receipts[s].rows)
    /\ UNCHANGED <<sessionVarsButPc, tracker_file, items_file, committed, normVars>>

\* ... df_items.to_pickle('saved_items.pkl'), then st.success and st.rerun.
ImportSaveItems(s) ==
    /\ pc[s] = "save_items"
    /\ pc' = [pc EXCEPT ![s] = "idle"]
    /\ items_file' = FileOf(df_items[s].rows)
    /\ notice' = [notice EXCEPT ![s] = {"Loaded"}]
    /\ UNCHANGED <<df_receipts, df_items, customer_payment_data, payment_tracker,
                   tracker_file, receipts_file, committed, normVars>>

\* Two sessions on the same files importing the sheets of two months; the
\* steps of an import interleave with the other session's runs.
NextImport ==
    \E s \in Sessions :
        \/ RunStart(s)
        \/ RunRaises(s)
        \/ \E sheet \in ImportSheets : ImportAssign(s, sheet)
        \/ ImportSaveReceipts(s)
        \/ ImportSaveItems(s)
        \/ NoData(s)
        \/ RefreshData(s)
        \/ \E i \in 1..MaxRows : Render(s, i)

SpecImport == Init /\ [][NextImport]_vars

\* ------------------------------------------------------------------------
\* normalize_phone on its own: a CustomerNumber column through the upload's
\* normalisation and then the aggregation's
\* ------------------------------------------------------------------------
NormInit ==
    /\ AppInit
    /\ col_raw \in Columns
    /\ col_norm = ColPending
    /\ col_keys = ColPending

\* df_receipts_raw['NormalizedPhone'] = df_receipts_raw['CustomerNumber'].apply(normalize_phone)
UploadNormalize ==
    /\ col_norm.state = "pending"
    /\ col_norm' = ApplyNormalize(col_raw)
    /\ UNCHANGED <<col_raw, col_keys, appVars>>

\* df['NormalizedPhone'] = df['CustomerNumber'].apply(normalize_phone), on
\* the CustomerNumber the upload stored
ReconcileNormalize ==
    /\ col_norm.state = "done"
    /\ col_keys.state = "pending"
    /\ col_keys' = ApplyNormalize(col_norm.values)
    /\ UNCHANGED <<col_raw, col_norm, appVars>>

NormNext == UploadNormalize \/ ReconcileNormalize

SpecNorm == NormInit /\ [][NormNext]_vars

\* ------------------------------------------------------------------------
\* Properties
\* ------------------------------------------------------------------------

\* The column holds the four representations of one subscriber number.
IsFormsColumn == Len(col_raw) = 4 /\ col_raw = FormsOf(col_raw[1])

AllSame(values) == \A i, j \in 1..Len(values) : values[i] = values[j]

\* C2 as stated: for every 10-digit subscriber number d, leading 0 included,
\* normalize_phone gives one CanonicalPhone for d, 91d and their float
\* forms.
C2_AllFormsAgree ==
    (IsFormsColumn /\ col_norm.state = "done") => AllSame(col_norm.values)

\* C2 amended: for every 10-digit subscriber number d that does not begin
\* with 0, normalize_phone gives the same CanonicalPhone, d itself, for d,
\* for 91d and for the float forms of both, and the aggregation puts all
\* four in one group.
C2_FormsAgreeNoLeadingZero ==
    (IsFormsColumn /\ col_raw[1][1] # "0") =>
        /\ col_norm.state # "raised"
        /\ col_norm.state = "done" =>
              \A i \in 1..4 : col_norm.values[i] = col_raw[1]
        /\ col_keys.state = "done" =>
              { col_keys.values[i] : i \in 1..4 } = {col_raw[1]}

\* C2 witness: the four forms of a number beginning with 9 1 went through
\* both normalisations and share one key.
C2_Witness ==
    /\ IsFormsColumn
    /\ StartsWith(col_raw[1], CountryCode)
    /\ col_keys.state = "done"
    /\ Cardinality({ col_keys.values[i] : i \in 1..4 }) = 1

\* C3 as stated: normalize_phone returns None only for a missing input and
\* a string for every other input, a text that is not numeric included; it
\* never raises.
C3_NeverRaises ==
    /\ col_norm.state # "raised"
    /\ col_norm.state = "done" =>
          \A i \in 1..Len(col_raw) : (col_norm.values[i] = None) <=> (col_raw[i] = None)

\* ------------------------------------------------------------------------
\* Properties of the application
\* ------------------------------------------------------------------------
RowsOf(frame) == { frame.rows[i] : i \in 1..Len(frame.rows) }

\* The tracked fields of a view row are those of a stored tracker dict.
TrackedFieldsMatch(row, stored) ==
    /\ row.PreviousBalance = stored.previous_balance
    /\ row.AdvanceAmount = stored.advance_amount
    /\ row.AmountPaid = stored.amount_paid
    /\ row.PaymentStatus = stored.payment_status
    /\ row.PaymentMode = stored.payment_mode
    /\ row.ReceivedOn = stored.received_on
    /\ row.Remarks = stored.remarks
    /\ row.CashCollected = stored.cash_collected
    /\ row.CashDeposited = stored.cash_deposited

\* The run of session s that ends in this step showed exactly msg.
RunEndsWith(s, msg) == pc[s] = "run" /\ pc'[s] = "idle" /\ notice'[s] = {msg}

\* C1: manual edits survive re-import.  'Clear Saved Data' and an upload
\* leave the persisted tracker as the last save wrote it, and after an upload
\* every phone the save stored that has a receipt in the new batch has a view
\* row carrying exactly the stored tracked fields.
C1_EditsSurviveReimport ==
    [][\A s \in Sessions :
          (RunEndsWith(s, "Loaded") \/ RunEndsWith(s, "Data cleared")) =>
              /\ tracker_file' = tracker_file
              /\ RunEndsWith(s, "Loaded") =>
                    \A p \in DOMAIN tracker_file.data :
                        (\E r \in RowsOf(df_receipts'[s]) : r.CustomerNumber = p) =>
                            \E row \in RowsOf(customer_payment_data'[s]) :
                                /\ row.Phone = p
                                /\ TrackedFieldsMatch(row, tracker_file.data[p])]_vars

\* C1 witness: an upload has just rebuilt the view and a row of it carries
\* a payment and a previous balance that only an earlier save can have
\* stored.
C1_Witness ==
    /\ notice[1] = {"Loaded"}
    /\ \E row \in RowsOf(customer_payment_data[1]) :
          /\ row.AmountPaid = 60
          /\ row.PreviousBalance = 20
          /\ row.Phone \in DOMAIN tracker_file.data

RECURSIVE SumDue(_)
SumDue(rows) ==
    IF rows = <<>> THEN 0 ELSE Head(rows).AmountDue + SumDue(Tail(rows))

\* C4 as stated: after an upload the Amount Due of the view rows add up to
\* the Total of all Credit receipts of the batch, those without a phone
\* included.
C4_ConservesAllCredit ==
    \A s \in Sessions :
        notice[s] = {"Loaded"} =>
            SumDue(customer_payment_data[s].rows) = SumTotal(df_receipts[s].rows)

\* C4 amended: after an upload the Amount Due of the view rows add up to the
\* Total of the Credit receipts of the batch that have a phone; a receipt
\* whose phone is missing is in no row.
C4_ConservesCreditWithPhone ==
    \A s \in Sessions :
        notice[s] = {"Loaded"} =>
            SumDue(customer_payment_data[s].rows) =
                SumTotal(SelectSeq(df_receipts[s].rows, LAMBDA r : r.CustomerNumber # None))

\* C4 witness: an upload grouped two receipts of one customer into a row of
\* 150.
C4_Witness ==
    /\ notice[1] = {"Loaded"}
    /\ Len(df_receipts[1].rows) = 2
    /\ Len(customer_payment_data[1].rows) = 1
    /\ customer_payment_data[1].rows[1].AmountDue = 150

\* C5 as stated: every row of customer_payment_data has Remaining Amount =
\* Amount Due + Previous Balance - Advance Amount - Amount Paid, in every
\* reachable state.
C5_RemainingNeverDrifts ==
    \A s \in Sessions :
        \A row \in RowsOf(customer_payment_data[s]) :
            row.RemainingAmount =
                row.AmountDue + row.PreviousBalance - row.AdvanceAmount - row.AmountPaid

\* A step of session s that reconciles: the upload or Refresh Data.
ReconcileStep(s) ==
    \/ RunEndsWith(s, "Loaded")
    \/ RefreshData(s)

\* C6: reconciliation performs no writes.  A step that reconciles leaves the
\* tracker of the session and the tracker file as they were, and gives every
\* phone that has no dict in the tracker a row of defaults.
C6_ReconcileWritesNothing ==
    [][\A s \in Sessions :
          ReconcileStep(s) =>
              /\ payment_tracker' = payment_tracker
              /\ tracker_file' = tracker_file
              /\ \A row \in RowsOf(customer_payment_data'[s]) :
                    row.Phone \notin DOMAIN payment_tracker[s] =>
                        /\ row.PreviousBalance = 0
                        /\ row.AdvanceAmount = 0
                        /\ row.AmountPaid = 0
                        /\ row.AdvanceCF = 0
                        /\ row.RemainingAmount = row.AmountDue
                        /\ row.PaymentStatus = "Due"
                        /\ row.AdvanceGiven = "No"
                        /\ row.Address = ""
                        /\ row.PaymentMode = ""
                        /\ row.ReceivedOn = ""
                        /\ row.Remarks = ""
                        /\ row.CashCollected = FALSE
                        /\ row.CashDeposited = FALSE]_vars

\* C6 witness: an upload has reconciled a customer the tracker, which holds
\* another customer, has no dict for.
C6_Witness ==
    /\ notice[1] = {"Loaded"}
    /\ payment_tracker[1] # EmptyDict
    /\ \E row \in RowsOf(customer_payment_data[1]) :
          row.Phone \notin DOMAIN payment_tracker[1]

PhonesOf(frame) == { frame.rows[i].Phone : i \in 1..Len(frame.rows) }

\* The dict stored for a row holds every tracked field of the row.
FullLedgerRow(stored, row) ==
    /\ stored.customer_name = row.Name
    /\ stored.address = row.Address
    /\ stored.advance_cf = row.AdvanceCF
    /\ TrackedFieldsMatch(row, stored)

\* C7: Save All Changes stores, for each row of the edited frame, a dict
\* holding all tracked fields of that row under the row's phone, in the
\* tracker and in the file; a phone the tracker or the file held that is not
\* in the edited frame keeps its dict unchanged.
C7_UpsertFrame ==
    [][\A s \in Sessions :
          RunEndsWith(s, "All changes saved") =>
              /\ \A row \in RowsOf(customer_payment_data'[s]) :
                    /\ row.Phone \in DOMAIN payment_tracker'[s]
                    /\ FullLedgerRow(payment_tracker'[s][row.Phone], row)
                    /\ row.Phone \in DOMAIN tracker_file'.data
                    /\ FullLedgerRow(tracker_file'.data[row.Phone], row)
              /\ \A p \in DOMAIN payment_tracker[s] \ PhonesOf(customer_payment_data'[s]) :
                    /\ p \in DOMAIN payment_tracker'[s]
                    /\ payment_tracker'[s][p] = payment_tracker[s][p]
              /\ \A p \in DOMAIN tracker_file.data \ PhonesOf(customer_payment_data'[s]) :
                    /\ p \in DOMAIN tracker_file'.data
                    /\ tracker_file'.data[p] = tracker_file.data[p]]_vars

\* C7 witness: a save of a filtered frame has just ended and the tracker
\* holds a payment of a customer who was not in the frame.
C7_Witness ==
    /\ notice[1] = {"All changes saved"}
    /\ \E p \in DOMAIN tracker_file.data :
          /\ p \notin PhonesOf(customer_payment_data[1])
          /\ tracker_file.data[p].amount_paid = 60
          /\ payment_tracker[1][p].amount_paid = 60

\* C8 as stated: when persisting the tracker fails during Save All Changes,
\* the tracker of the session and the file are left as they were and the
\* save is not reported as successful.
C8_FailedSaveLeavesStore ==
    [][\A s \in Sessions :
          (pc[s] = "run" /\ "Failed to save payment tracker" \in notice'[s]) =>
              /\ payment_tracker'[s] = payment_tracker[s]
              /\ tracker_file' = tracker_file
              /\ "All changes saved" \notin notice'[s]]_vars

\* C9 as stated: when two sessions have each saved a batch, of different
\* customers, the persisted tracker holds the rows of both batches,
\* whatever the interleaving of their loads and writes.
C9_BothBatchesPersist ==
    ( /\ \A s \in Sessions : pc[s] = "idle" /\ notice[s] = {"All changes saved"}
      /\ PhonesOf(customer_payment_data[1]) \cap PhonesOf(customer_payment_data[2]) = {}
      /\ tracker_file.complete )
    => \A s \in Sessions :
           \A row \in RowsOf(customer_payment_data[s]) :
               /\ row.Phone \in DOMAIN tracker_file.data
               /\ FullLedgerRow(tracker_file.data[row.Phone], row)

\* C10 as stated: a load of payment_tracker.json that runs while another
\* session writes the file yields the complete dict of before the write or
\* the complete dict of after it.
C10_LoadSeesCompleteStore ==
    [][\A s \in Sessions :
          (pc[s] = "idle" /\ pc'[s] = "run" /\ tracker_file.exists) =>
              \/ payment_tracker'[s] = committed
              \/ \E w \in Sessions \ {s} :
                    pc[w] = "dump" /\ payment_tracker'[s] = payment_tracker[w]]_vars

\* The items are those of the receipts: one line of goods per receipt, of
\* the receipt's amount.
ItemsOfBatch(receipts, items) ==
    /\ ~items.none
    /\ items.rows = [i \in 1..Len(receipts.rows) |->
                        [ReceiptId |-> receipts.rows[i].ReceiptId,
                         EntryType |-> "Item",
                         Amount |-> receipts.rows[i].Total]]

\* The view is the aggregation of the receipts: the same phones and, per
\* phone, the sum of its receipts as Amount Due.
ViewOfBatch(receipts, view) ==
    /\ PhonesOf(view) = { r.CustomerNumber : r \in RowsOf(receipts) } \ {None}
    /\ \A row \in RowsOf(view) :
          row.AmountDue =
              SumTotal(SelectSeq(receipts.rows, LAMBDA r : r.CustomerNumber = row.Phone))

\* C11 as stated: a session that loads the saved data while another session
\* imports a batch holds, after the load, receipts together with the items
\* of the same batch and no ledger view derived from another batch.
C11_ImportAppearsAtomic ==
    [][\A s \in Sessions :
          (pc[s] = "idle" /\ pc'[s] = "run" /\ ~df_receipts'[s].none) =>
              /\ ItemsOfBatch(df_receipts'[s], df_items'[s])
              /\ customer_payment_data'[s].none
                    \/ ViewOfBatch(df_receipts'[s], customer_payment_data'[s])]_vars

\* C12 as stated: a phone that has a row in the persisted tracker still has
\* one after every step: uploads, 'Clear Saved Data', loads of the tracker
\* (a load that fails included), refreshes and saves.
C12_RowsNeverDropped ==
    [][\A p \in DOMAIN committed : p \in DOMAIN committed']_vars

\* amount_paid the tracker holds for a phone, 0 when it has no row
StoredPaid(tracker, phone) ==
    DictGet(DictGet(tracker, phone, EmptyDict), "amount_paid", 0)

\* The status the rule derives: Settled when nothing remains, else Partial
\* when something was paid, else Due.
DerivedStatus(row) ==
    IF Remaining(row.AmountDue, row.PreviousBalance, row.AdvanceAmount, row.AmountPaid) <= 0
    THEN "Settled"
    ELSE IF row.AmountPaid > 0 THEN "Partial" ELSE "Due"

\* C13 as stated: when a save records a payment on a row (its Amount Paid
\* differs from the stored one), the stored status is the derived one:
\* Settled if due + previous - advance - paid <= 0, Partial if paid > 0 and
\* something remains, Due if nothing was paid; never Advance.
C13_StatusDerivedAfterPayment ==
    [][\A s \in Sessions :
          RunEndsWith(s, "All changes saved") =>
              \A row \in RowsOf(customer_payment_data'[s]) :
                  row.AmountPaid # StoredPaid(payment_tracker[s], row.Phone) =>
                      payment_tracker'[s][row.Phone].payment_status = DerivedStatus(row)]_vars

\* C14 as stated: a payment of a non-positive amount is rejected before any
\* write, so no save ever lowers the amount paid the file holds for a phone
\* (0 for a phone it has no row for).
C14_AmountPaidNeverDecreases ==
    [][\A s \in Sessions :
          RunEndsWith(s, "All changes saved") =>
              \A p \in DOMAIN tracker_file'.data :
                  tracker_file'.data[p].amount_paid >= StoredPaid(tracker_file.data, p)]_vars

\* The receipts of the session aggregated into a view row, in input order.
GroupOf(s, row) ==
    SelectSeq(df_receipts[s].rows, LAMBDA r : r.CustomerNumber = row.Phone)

\* C15 as stated: after an upload the Name of every view row is the
\* CustomerName of the first receipt of its phone in input order, also when
\* that name is missing.
C15_NameOfFirstRow ==
    \A s \in Sessions :
        notice[s] = {"Loaded"} =>
            \A row \in RowsOf(customer_payment_data[s]) :
                row.Name = GroupOf(s, row)[1].CustomerName

\* C15 amended: after an upload the Name of every view row is the first
\* CustomerName that is not missing among the receipts of its phone, in
\* input order, and is missing only when every name of the group is; the
\* rows of other phones and the order of the groups play no part.
C15_FirstNameNotMissing ==
    \A s \in Sessions :
        notice[s] = {"Loaded"} =>
            \A row \in RowsOf(customer_payment_data[s]) :
                LET g == GroupOf(s, row)
                IN /\ Len(g) > 0
                   /\ \/ \E i \in 1..Len(g) :
                            /\ g[i].CustomerName # NoName
                            /\ \A j \in 1..(i - 1) : g[j].CustomerName = NoName
                            /\ row.Name = g[i].CustomerName
                      \/ /\ \A i \in 1..Len(g) : g[i].CustomerName = NoName
                         /\ row.Name = NoName

\* C15 witness: an upload aggregated a customer whose first receipt has no
\* name and whose second has one, and the row carries that second name.
C15_Witness ==
    /\ notice[1] = {"Loaded"}
    /\ \E row \in RowsOf(customer_payment_data[1]) :
          /\ Len(GroupOf(1, row)) = 2
          /\ GroupOf(1, row)[1].CustomerName = NoName
          /\ GroupOf(1, row)[2].CustomerName = "Asha Devi"
          /\ row.Name = "Asha Devi"

\* C16 as stated: when Save All Changes has completed, the view the next
\* read finds is the reconciliation of the current receipts against the
\* current tracker: a row for every aggregated customer, those a filter hid
\* in the editor included, every field as stored and Remaining Amount as
\* the formula gives it.
C16_NoStaleViewAfterSave ==
    [][\A s \in Sessions :
          RunEndsWith(s, "All changes saved") =>
              customer_payment_data'[s] =
                  InitializeCustomerPaymentData(df_receipts'[s], payment_tracker'[s])]_vars

\* C17 as stated: whenever a run has receipts loaded at the moment the
\* sidebar computes the customer count, the ledger view is initialized, in a
\* fresh session started with saved receipts on disk as well.
C17_ViewInitializedWithReceipts ==
    \A s \in Sessions :
        (pc[s] = "run" /\ ~df_receipts[s].none) => ~customer_payment_data[s].none

\* C18 as stated: normalizing the CustomerNumber the import stored gives
\* that CustomerNumber again, so the key of the view row of every receipt
\* with a phone equals the receipt's CustomerNumber.
C18_KeyStableUnderRenormalization ==
    col_keys.state = "done" =>
        \A i \in 1..Len(col_raw) :
            col_norm.values[i] # None => col_keys.values[i] = col_norm.values[i]

\* C19 as stated: a run that renders the bill tab for a selected customer
\* leaves the payment_tracker of the session as it was, also when the view
\* differs from the tracker.
C19_RenderReadsOnly ==
    [][\A s \in Sessions :
          (\E i \in 1..MaxRows : Render(s, i)) =>
              payment_tracker'[s] = payment_tracker[s]]_vars

=============================================================================
